---- MODULE Spec2Model ----
(***************************************************************************)
(* Model of streamlit_app.py (Metabolic Pathway Explorer).                 *)
(*                                                                         *)
(* The state machines of this module:                                      *)
(*   Spec      one explorer tab (create_pathway_explorer or                *)
(*             create_three_way_pathway_explorer) over a loaded table;     *)
(*             every widget change reruns the explorer.                    *)
(*   SpecLoad  the module-level script: Clear Cache button, the six        *)
(*             cached loaders and the six tabs.                            *)
(*   SpecSchema, SpecStages, SpecTrajectory                                *)
(*             the explorer of Spec started on other tables: one column    *)
(*             missing, stage-mean columns present, and pathways of up to  *)
(*             three reactions with mixed trajectory labels.               *)
(*                                                                         *)
(* Text is a sequence of one-character strings.  Effect sizes (cohens_d,   *)
(* pathway_median_d, the slider) are integers in units of 0.05, so that    *)
(* the median of two table values is exact.  pct_significant is an integer *)
(* in tenths of a percent (667 is 66.7).                                   *)
(***************************************************************************)
EXTENDS Integers, Sequences, FiniteSets, TLC

VARIABLES
    dataset_name,           \* which tab / explorer call this machine is
    data,                   \* the table handed to the explorer
    columns,                \* the column names of that table
    search_term,            \* st.sidebar.text_input   key search_*
    selected_direction,     \* st.sidebar.selectbox    key direction_* / trajectory_*
    show_significant_only,  \* st.sidebar.checkbox     key sig_*
    show_with_genes_only,   \* st.sidebar.checkbox     key genes_*
    min_effect_size,        \* st.sidebar.slider       key effect_*
    checked,                \* pathway checkboxes that hold True in the session
    filtered_data,          \* local of the last run
    pathways,               \* local of the last run: the Pathway Summary
    selected_pathways,      \* local of the last run
    pathway_data,           \* local of the last run: the reaction view
    error,                  \* exception that ended the last run, or "none"
    markers,                \* last run: the emoji of each pathway checkbox
    hints,                  \* last run: the search suggestions were shown
    summary_statistics,     \* last run: the four metrics of Summary Statistics
    files,                  \* SpecLoad: state of every CSV file on disk
    cache,                  \* SpecLoad: st.cache_data entries, one per loader
    parsed,                 \* SpecLoad: loaders that parsed a file since the last clear
    reparsed,               \* SpecLoad: loaders that in the last run parsed a file again
    loaded,                 \* SpecLoad: value each loader call returned in the last run
    rendered,               \* SpecLoad: tabs whose body ran to its end in the last run
    crashed,                \* SpecLoad: where an exception ended the last run, or "none"
    clear_clicked           \* SpecLoad: value of the Clear Cache button in the last run

explorer_vars == <<dataset_name, data, columns, search_term, selected_direction,
                   show_significant_only, show_with_genes_only, min_effect_size,
                   checked, filtered_data, pathways, selected_pathways,
                   pathway_data, error, markers, hints, summary_statistics>>
load_vars == <<files, cache, parsed, reparsed, loaded, rendered, crashed,
               clear_clicked>>
vars == <<explorer_vars, load_vars>>

(***************************************************************************)
(* Bounds                                                                  *)
(***************************************************************************)
MaxRows == 2
MaxFaults == 1

(***************************************************************************)
(* Generic helpers                                                         *)
(***************************************************************************)
Abs(x) == IF x < 0 THEN -x ELSE x

Range(s) == {s[i] : i \in 1..Len(s)}

RECURSIVE SumSeq(_)
SumSeq(s) == IF s = <<>> THEN 0 ELSE Head(s) + SumSeq(Tail(s))

\* all sequences over S of length 0..n
SeqsUpTo(S, n) == UNION {[1..k -> S] : k \in 0..n}

\* the elements of a finite set of integers, as a sequence in some order
RECURSIVE SeqOfSet(_)
SeqOfSet(S) ==
    IF S = {} THEN <<>>
    ELSE LET m == CHOOSE x \in S : TRUE IN <<m>> \o SeqOfSet(S \ {m})

\* ascending sort of a sequence of integers
RECURSIVE SortInts(_)
SortInts(s) ==
    IF s = <<>> THEN <<>>
    ELSE LET m == CHOOSE i \in 1..Len(s) : \A j \in 1..Len(s) : s[i] <= s[j]
         IN  <<s[m]>> \o SortInts(SubSeq(s, 1, m - 1) \o SubSeq(s, m + 1, Len(s)))

(***************************************************************************)
(* Text: str.lower, string order, and str.contains (which treats its       *)
(* argument as a regular expression; "." is the one metacharacter the      *)
(* model's search terms use)                                               *)
(***************************************************************************)
CharOrder == <<".", "A", "C", "G", "L", "T", "a", "c", "g", "l", "s", "t", "y">>
UpperChars == <<"A", "C", "G", "L", "T">>
LowerChars == <<"a", "c", "g", "l", "t">>

Ord(c) == CHOOSE i \in 1..Len(CharOrder) : CharOrder[i] = c

LowerChar(c) ==
    IF \E i \in 1..Len(UpperChars) : UpperChars[i] = c
    THEN LowerChars[CHOOSE i \in 1..Len(UpperChars) : UpperChars[i] = c]
    ELSE c

\* str.lower()
StrLower(s) == [i \in 1..Len(s) |-> LowerChar(s[i])]

\* a < b in Python's string order (code points, then length)
RECURSIVE StrLess(_, _)
StrLess(a, b) ==
    IF b = <<>> THEN FALSE
    ELSE IF a = <<>> THEN TRUE
    ELSE IF Head(a) # Head(b) THEN Ord(Head(a)) < Ord(Head(b))
    ELSE StrLess(Tail(a), Tail(b))

\* re.search(pat, s) is not None, for patterns of literals and "."
RegexContains(pat, s) ==
    \E i \in 1..(Len(s) - Len(pat) + 1) :
        \A k \in 1..Len(pat) : pat[k] = "." \/ pat[k] = s[i + k - 1]

\* a missing value: read_csv turns an empty field into NaN
NaN == <<>>

\* Series.str.contains(pat, na=False) on one value
StrContains(value, pat) == value # NaN /\ RegexContains(pat, value)

(***************************************************************************)
(* The inputs: tables as read_csv delivers them, and the widget values     *)
(***************************************************************************)
Gly == <<"G", "l", "y">>
TCA == <<"T", "C", "A">>
Cs == <<"C", "s">>

PathwayNames == {Gly, TCA}
GeneStrings == {NaN, Cs}
DValues == {-6, 2}
SearchTerms == {<<>>, <<"G", "L">>, <<"C", ".">>}
MinEffects == {0, 4}

TwoGroupDatasets == {"CD4", "Early_vs_Late"}
Datasets == TwoGroupDatasets \cup {"Three_Way_ANOVA"}

hi_label(ds) == IF ds = "CD4" THEN "CD5 hi" ELSE "Early_Selection"
lo_label(ds) == IF ds = "CD4" THEN "CD5 lo" ELSE "Late_Selection"

AllColumns == {"reaction_id", "reaction_name", "pathway", "cohens_d", "p_value",
               "significant", "genes", "n_genes", "ec_number",
               "pathway_direction", "pathway_median_d",
               "developmental_trajectory"}

\* median of a non-empty sequence of integers (pandas 'median': the middle
\* value, or the mean of the two middle values)
Median(s) ==
    LET o == SortInts(s)
        n == Len(o)
    IN  IF n % 2 = 1 THEN o[(n + 1) \div 2]
        ELSE (o[n \div 2] + o[n \div 2 + 1]) \div 2

\* The part of a row that the upstream pipeline measures.  The rows are a
\* half fraction of the sixteen combinations of the four fields: any three
\* fields take all their eight combinations.
CoreRows ==
    {r \in [pathway : PathwayNames, cohens_d : DValues,
            significant : BOOLEAN, genes : GeneStrings] :
        (r.genes = Cs) <=> ((r.pathway = Gly) <=> ((r.cohens_d > 0) <=> r.significant))}

\* Upstream's pathway-level columns: the pathway's median Cohen's d over the
\* table, and a direction label.  The CD4 file labels by the sign of the
\* median; the thymic files carry the label the explorer does not trust.
UpstreamMedian(core, p) ==
    LET g == SelectSeq(core, LAMBDA r : r.pathway = p)
    IN  Median([i \in 1..Len(g) |-> g[i].cohens_d])

UpstreamDirection(ds, m) ==
    IF ds = "CD4" THEN (IF m > 0 THEN "CD5 hi" ELSE "CD5 lo")
    ELSE (IF m > 0 THEN "Late_Selection" ELSE "Early_Selection")

\* the DataFrame read_csv returns for the file whose rows are core
MkTable(ds, core) ==
    [i \in 1..Len(core) |->
        LET m == UpstreamMedian(core, core[i].pathway)
        IN  [reaction_id |-> i,
             pathway |-> core[i].pathway,
             cohens_d |-> core[i].cohens_d,
             significant |-> core[i].significant,
             genes |-> core[i].genes,
             n_genes |-> IF core[i].genes = NaN THEN 0 ELSE 1,
             pathway_median_d |-> m,
             pathway_direction |-> UpstreamDirection(ds, m),
             developmental_trajectory |->
                 IF core[i].cohens_d > 0 THEN "Increasing" ELSE "Decreasing"]]

Tables(ds) == {MkTable(ds, core) : core \in SeqsUpTo(CoreRows, MaxRows)}

\* a column all of whose fields are empty is read as float64, and the .str
\* accessor raises AttributeError on it; a header-only file gives object
GenesIsFloat(d) == d # <<>> /\ \A i \in 1..Len(d) : d[i].genes = NaN

(***************************************************************************)
(* Steps shared by the two explorers                                       *)
(***************************************************************************)
NoError == <<"none", 0>>
Raised(kind, line) == <<kind, line>>

\* lines 142-150 / 382-390: the search filter
pathway_match(r, search_term_lower) ==
    StrContains(StrLower(r.pathway), search_term_lower)
gene_match(r, search_term_lower) ==
    r.genes # NaN /\ StrContains(StrLower(r.genes), search_term_lower)

ApplySearch(d, term) ==
    IF term = <<>> THEN d
    ELSE SelectSeq(d, LAMBDA r : \/ pathway_match(r, StrLower(term))
                                 \/ gene_match(r, StrLower(term)))

ApplySignificant_ignored(d, flag) == d

\* lines 171-175 / 402-406
ApplySignificant(d, flag) ==
    IF flag THEN SelectSeq(d, LAMBDA r : r.significant = TRUE) ELSE d

ApplyGenes(d, flag) ==
    IF flag THEN SelectSeq(d, LAMBDA r : r.n_genes > 0) ELSE d

\* groupby('pathway'): the distinct keys in ascending order (sort=True)
RECURSIVE SortNames(_)
SortNames(S) ==
    IF S = {} THEN <<>>
    ELSE LET m == CHOOSE x \in S : \A y \in S \ {x} : StrLess(x, y)
         IN  <<m>> \o SortNames(S \ {m})

\* mutant: groupby(sort=False), the keys in order of first appearance
GroupKeys_unsorted(fd) ==
    LET first == {i \in 1..Len(fd) : \A j \in 1..(i - 1) : fd[j].pathway # fd[i].pathway}
        names == [i \in 1..Len(fd) |-> fd[i].pathway]
        idx == SortInts(SeqOfSet(first))
    IN  [k \in 1..Len(idx) |-> names[idx[k]]]

GroupKeys(fd) == SortNames({fd[i].pathway : i \in 1..Len(fd)})

\* the rows of one group, in table order
Group(fd, p) == SelectSeq(fd, LAMBDA r : r.pathway = p)

\* mutant: 'significant': 'count'
CountSignificant_count(g) == Len(g)

\* 'significant': 'sum'
CountSignificant(g) == Len(SelectSeq(g, LAMBDA r : r.significant))

\* 'reaction_id': 'count'
CountRows(g) == Len(g)

\* mutant: the fraction is scaled by 1000, not by 100
PctSignificant_permille(n_significant, n_total) ==
    (n_significant * 10000) \div n_total

\* (n_significant / n_total * 100).round(1), in tenths of a percent;
\* numpy rounds an exact half to the even neighbour
PctSignificant(n_significant, n_total) ==
    LET q == (n_significant * 1000) \div n_total
        r == (n_significant * 1000) % n_total
    IN  IF 2 * r < n_total THEN q
        ELSE IF 2 * r > n_total THEN q + 1
        ELSE IF q % 2 = 0 THEN q ELSE q + 1

\* row a goes before row b in sort_values(['abs_median_d','pct_significant'],
\* ascending=[False, False])
SortsBefore(a, b) ==
    \/ Abs(a.median_d) > Abs(b.median_d)
    \/ Abs(a.median_d) = Abs(b.median_d) /\ a.pct_significant > b.pct_significant

\* a sort on several columns is a stable sort (lexsort): a row is placed
\* before the first already placed row that it sorts strictly before
RECURSIVE InsertRow(_, _)
InsertRow(x, s) ==
    IF s = <<>> THEN <<x>>
    ELSE IF SortsBefore(x, Head(s)) THEN <<x>> \o s
    ELSE <<Head(s)>> \o InsertRow(x, Tail(s))

RECURSIVE SortValues(_)
SortValues(s) ==
    IF s = <<>> THEN <<>>
    ELSE InsertRow(s[Len(s)], SortValues(SubSeq(s, 1, Len(s) - 1)))

\* mutant: every checkbox the session holds True, listed or not
SelectedPathways_session(pw, chk) == SortNames(chk)

\* lines 212-228 / 451-486: one checkbox per summary row, in summary order;
\* the checked ones are appended to selected_pathways
SelectedPathways(pw, chk) ==
    LET names == [i \in 1..Len(pw) |-> pw[i].pathway]
    IN  SelectSeq(names, LAMBDA p : p \in chk)

\* mutant: sort_values('cohens_d', ascending=False) without key=abs
ReactionViews_signed(fd, sel) ==
    LET rows == SelectSeq(fd, LAMBDA r : r.pathway \in Range(sel))
        n == Len(rows)
        perms == {p \in [1..n -> 1..n] : \A i, j \in 1..n : i # j => p[i] # p[j]}
    IN  {[i \in 1..n |-> rows[p[i]]] :
            p \in {q \in perms :
                     \A i \in 1..n : \A j \in 1..n :
                        i < j => rows[q[i]].cohens_d >= rows[q[j]].cohens_d}}

\* lines 249-252 / 535-538: the rows of the selected pathways, then
\* sort_values('cohens_d', key=abs, ascending=False).  The default sort kind
\* is quicksort, which promises no order among equal keys: every order of
\* the rows that is descending in |cohens_d| is a possible result.
IsInSelected(r, sel) == r.pathway \in Range(sel)

ReactionViews(fd, sel) ==
    LET rows == SelectSeq(fd, LAMBDA r : IsInSelected(r, sel))
        n == Len(rows)
        perms == {p \in [1..n -> 1..n] : \A i, j \in 1..n : i # j => p[i] # p[j]}
    IN  {[i \in 1..n |-> rows[p[i]]] :
            p \in {q \in perms :
                     \A i \in 1..n : \A j \in 1..n :
                        i < j => Abs(rows[q[i]].cohens_d) >= Abs(rows[q[j]].cohens_d)}}

\* lines 254-316 / 540-632: the reaction table and the details of the
\* reaction the selectbox shows (its first option).  Returns the exception
\* raised, or NoError.
ReactionDetails(d, cols, view, at) ==
    IF ~({"reaction_id", "p_value", "significant", "genes", "n_genes",
          "reaction_name"} \subseteq cols)
    THEN Raised("KeyError", at.display)
    ELSE IF GenesIsFloat(d) THEN Raised("AttributeError", at.str)
    ELSE IF view[1].genes = NaN THEN Raised("AttributeError", at.split)
    ELSE IF "ec_number" \notin cols THEN Raised("KeyError", at.ec)
    ELSE NoError

\* lines 327-336 / 643-652: Summary Statistics
SummaryStatistics(cols, line) ==
    IF "pathway" \notin cols THEN Raised("KeyError", line)
    ELSE IF "significant" \notin cols THEN Raised("KeyError", line + 6)
    ELSE IF "n_genes" \notin cols THEN Raised("KeyError", line + 9)
    ELSE NoError

\* where the two explorers make the accesses that can raise
TwoGroupLines == [sort |-> 252, display |-> 258, str |-> 260, split |-> 309,
                  ec |-> 315, stats |-> 327]
ThreeWayLines == [sort |-> 538, display |-> 548, str |-> 550, split |-> 625,
                  ec |-> 631, stats |-> 643]

\* the locals a run leaves behind
Outcome(fd, pw, sel, view, err, chk) ==
    [filtered_data |-> fd, pathways |-> pw, selected_pathways |-> sel,
     pathway_data |-> view, error |-> err, checked |-> chk]

\* a run that an exception ends before the Pathway Summary exists; the
\* session keeps the widget values of a run that did not finish
Aborted(err, chk) == Outcome(<<>>, <<>>, <<>>, <<>>, err, chk)

\* everything after the Pathway Summary (line 203 / 442): checkboxes,
\* reaction view, details, Summary Statistics.  A finished run drops the
\* state of the checkboxes it did not render.
AfterSummary(d, cols, fd, pw, chk, at) ==
    LET sel == SelectedPathways(pw, chk)
        kept == chk \cap Range(sel)
    IN  IF sel = <<>>
        THEN {Outcome(fd, pw, sel, <<>>, SummaryStatistics(cols, at.stats),
                      IF SummaryStatistics(cols, at.stats) = NoError
                      THEN kept ELSE chk)}
        ELSE IF "cohens_d" \notin cols
        THEN {Outcome(fd, pw, sel, <<>>, Raised("KeyError", at.sort), chk)}
        ELSE {LET e1 == ReactionDetails(d, cols, view, at)
                  e2 == IF e1 = NoError THEN SummaryStatistics(cols, at.stats)
                        ELSE e1
              IN  Outcome(fd, pw, sel, view, e2,
                          IF e2 = NoError THEN kept ELSE chk) :
              view \in ReactionViews(fd, sel)}

(***************************************************************************)
(* create_pathway_explorer (lines 105-336)                                 *)
(***************************************************************************)
\* line 127
direction_options(d) == {"All"} \cup {d[i].pathway_direction : i \in 1..Len(d)}

\* lines 160-162
pathway_direction_fixed(x, hi, lo) == IF x > 0 THEN hi ELSE lo

\* mutant: the filter compares the label of the file
direction_col_unfixed(r, hi, lo) == r.pathway_direction

\* lines 159-169: the label the direction filter compares
direction_col(r, hi, lo) ==
    IF hi # lo THEN pathway_direction_fixed(r.pathway_median_d, hi, lo)
    ELSE r.pathway_direction

ApplyDirection(d, hi, lo, selected) ==
    IF selected # "All"
    THEN SelectSeq(d, LAMBDA r : direction_col(r, hi, lo) = selected)
    ELSE d

\* lines 140-175
FilterTwoGroup(d, hi, lo, term, selected, sig, gonly) ==
    ApplyGenes(ApplySignificant(ApplyDirection(ApplySearch(d, term),
                                               hi, lo, selected), sig), gonly)

\* lines 184-192: groupby('pathway').agg(...) and pct_significant
AggregateTwoGroup(fd) ==
    LET keys == GroupKeys(fd)
    IN  [k \in 1..Len(keys) |->
            LET g == Group(fd, keys[k])
            IN  [pathway |-> keys[k],
                 direction |-> g[1].pathway_direction,
                 median_d |-> g[1].pathway_median_d,
                 n_significant |-> CountSignificant(g),
                 n_total |-> CountRows(g),
                 pct_significant |->
                     PctSignificant(CountSignificant(g), CountRows(g))]]

\* mutant: the threshold is compared with median_d, not with its absolute value
FilterByEffect_signed(pw, min) == SelectSeq(pw, LAMBDA p : p.median_d >= min)

\* line 195
FilterByEffect(pw, min) == SelectSeq(pw, LAMBDA p : Abs(p.median_d) >= min)

\* lines 184-201
SummaryTwoGroup(fd, min) == SortValues(FilterByEffect(AggregateTwoGroup(fd), min))

create_pathway_explorer(d, cols, hi, lo, term, selected, sig, gonly, min, chk) ==
    IF "pathway_direction" \notin cols
    THEN {Aborted(Raised("KeyError", 127), chk)}
    ELSE IF term # <<>> /\ "pathway" \notin cols
    THEN {Aborted(Raised("KeyError", 146), chk)}
    ELSE IF term # <<>> /\ "genes" \notin cols
    THEN {Aborted(Raised("KeyError", 147), chk)}
    ELSE IF term # <<>> /\ GenesIsFloat(d)
    THEN {Aborted(Raised("AttributeError", 147), chk)}
    ELSE IF hi # lo /\ "pathway_median_d" \notin cols
    THEN {Aborted(Raised("KeyError", 160), chk)}
    ELSE IF sig /\ "significant" \notin cols
    THEN {Aborted(Raised("KeyError", 172), chk)}
    ELSE IF gonly /\ "n_genes" \notin cols
    THEN {Aborted(Raised("KeyError", 175), chk)}
    ELSE IF ~({"pathway", "pathway_median_d", "significant", "reaction_id"}
                 \subseteq cols)
    THEN {Aborted(Raised("KeyError", 184), chk)}
    ELSE LET fd == FilterTwoGroup(d, hi, lo, term, selected, sig, gonly)
         IN  AfterSummary(d, cols, fd, SummaryTwoGroup(fd, min), chk, TwoGroupLines)

(***************************************************************************)
(* create_three_way_pathway_explorer (lines 338-652)                       *)
(***************************************************************************)
\* lines 363-367
trajectory_options(d, cols) ==
    IF "developmental_trajectory" \in cols
    THEN {"All"} \cup {d[i].developmental_trajectory : i \in 1..Len(d)}
    ELSE {"All"}

\* lines 399-400
ApplyTrajectory(d, cols, selected) ==
    IF selected # "All" /\ "developmental_trajectory" \in cols
    THEN SelectSeq(d, LAMBDA r : r.developmental_trajectory = selected)
    ELSE d

\* line 409: the threshold is applied to the reactions
FilterRowsByEffect(d, min) == SelectSeq(d, LAMBDA r : Abs(r.cohens_d) >= min)

\* lines 380-409
FilterThreeWay(d, cols, term, selected, sig, gonly, min) ==
    FilterRowsByEffect(
        ApplyGenes(ApplySignificant(ApplyTrajectory(ApplySearch(d, term),
                                                    cols, selected), sig), gonly),
        min)

MostCommon_any(g) == {g[i].developmental_trajectory : i \in 1..Len(g)}

\* line 425: x.value_counts().index[0].  value_counts orders the labels by
\* descending count with the default sort kind, so among equally frequent
\* labels any one can come first.
MostCommon(g) ==
    LET labels == {g[i].developmental_trajectory : i \in 1..Len(g)}
        count(l) == Len(SelectSeq(g, LAMBDA r : r.developmental_trajectory = l))
    IN  {l \in labels : \A m \in labels : count(l) >= count(m)}

\* lines 418-435, for one choice of the most common labels
AggregateThreeWay(fd, cols, common) ==
    LET keys == GroupKeys(fd)
    IN  [k \in 1..Len(keys) |->
            LET g == Group(fd, keys[k])
            IN  [pathway |-> keys[k],
                 median_d |-> Median([i \in 1..Len(g) |-> g[i].cohens_d]),
                 n_significant |-> CountSignificant(g),
                 n_total |-> CountRows(g),
                 common_trajectory |->
                     IF "developmental_trajectory" \in cols
                     THEN common[k] ELSE "Unknown",
                 pct_significant |->
                     PctSignificant(CountSignificant(g), CountRows(g))]]

\* lines 418-440: every Pathway Summary the run can produce
SummariesThreeWay(fd, cols) ==
    LET keys == GroupKeys(fd)
        choices == {c \in [1..Len(keys) -> {"Increasing", "Decreasing"}] :
                       \A k \in 1..Len(keys) : c[k] \in MostCommon(Group(fd, keys[k]))}
    IN  {SortValues(AggregateThreeWay(fd, cols, c)) : c \in choices}

create_three_way_pathway_explorer(d, cols, term, selected, sig, gonly, min, chk) ==
    IF term # <<>> /\ "pathway" \notin cols
    THEN {Aborted(Raised("KeyError", 386), chk)}
    ELSE IF term # <<>> /\ "genes" \notin cols
    THEN {Aborted(Raised("KeyError", 387), chk)}
    ELSE IF term # <<>> /\ GenesIsFloat(d)
    THEN {Aborted(Raised("AttributeError", 387), chk)}
    ELSE IF sig /\ "significant" \notin cols
    THEN {Aborted(Raised("KeyError", 403), chk)}
    ELSE IF gonly /\ "n_genes" \notin cols
    THEN {Aborted(Raised("KeyError", 406), chk)}
    ELSE IF "cohens_d" \notin cols
    THEN {Aborted(Raised("KeyError", 409), chk)}
    ELSE IF ~({"pathway", "significant", "reaction_id"} \subseteq cols)
    THEN {Aborted(Raised("KeyError", 427), chk)}
    ELSE LET fd == FilterThreeWay(d, cols, term, selected, sig, gonly, min)
         IN  UNION {AfterSummary(d, cols, fd, pw, chk, ThreeWayLines) :
                       pw \in SummariesThreeWay(fd, cols)}

(***************************************************************************)
(* One explorer tab as a state machine: a widget change reruns the script  *)
(***************************************************************************)
\* lines 683, 709, 749: the call the tab makes
Explorer(ds, d, cols, term, selected, sig, gonly, min, chk) ==
    IF ds \in TwoGroupDatasets
    THEN create_pathway_explorer(d, cols, hi_label(ds), lo_label(ds),
                                 term, selected, sig, gonly, min, chk)
    ELSE create_three_way_pathway_explorer(d, cols, term, selected, sig,
                                           gonly, min, chk)

\* the options of the selectbox of the tab
SelectOptions(ds, d, cols) ==
    IF ds \in TwoGroupDatasets THEN direction_options(d)
    ELSE trajectory_options(d, cols)

IsTwoGroup == dataset_name \in TwoGroupDatasets

\* the run that ended with err got past line 203 / 442
SummaryReached(ds, err) ==
    err = NoError \/ err[2] > (IF ds \in TwoGroupDatasets THEN 203 ELSE 442)

\* line 216: the emoji of a checkbox of create_pathway_explorer
direction_emoji(pathway_row) ==
    IF pathway_row.median_d > 0 THEN "red" ELSE "blue"

\* lines 455-475: the emoji of a checkbox of the three-way explorer;
\* pathway_row is a row of the Pathway Summary
stage_emoji(pathway_row) ==
    IF "highest_stage" \in DOMAIN pathway_row /\ pathway_row.highest_stage # NaN
    THEN CASE pathway_row.highest_stage = "Mature_CD8SP" -> "red"
           [] pathway_row.highest_stage = "Late_Selection" -> "yellow"
           [] pathway_row.highest_stage = "Early_Selection" -> "blue"
           [] OTHER -> "white"
    ELSE IF pathway_row.median_d > 0 THEN "red"
    ELSE IF pathway_row.median_d < 0 THEN "blue"
    ELSE "white"

\* lines 212-228 / 452-485: one checkbox per row of the Pathway Summary
CheckboxEmojis(ds, pw) ==
    [i \in DOMAIN pw |->
        IF ds \in TwoGroupDatasets THEN direction_emoji(pw[i])
        ELSE stage_emoji(pw[i])]

\* lines 205-209 / 444-448
SearchSuggestions(ds, term, pw, err) ==
    SummaryReached(ds, err) /\ term # <<>> /\ Len(pw) = 0

SummaryMetrics_filtered(d, fd) ==
    [total_pathways |-> Cardinality({fd[i].pathway : i \in DOMAIN fd}),
     total_reactions |-> Len(fd),
     significant_reactions |-> Cardinality({i \in DOMAIN fd : fd[i].significant}),
     reactions_with_genes |-> Cardinality({i \in DOMAIN fd : fd[i].n_genes > 0})]

\* lines 327-336 / 643-652: the metrics are taken from data, the table the
\* explorer was called with, not from filtered_data
SummaryMetrics(d, fd) ==
    [total_pathways |-> Cardinality({d[i].pathway : i \in DOMAIN d}),
     total_reactions |-> Len(d),
     significant_reactions |-> Cardinality({i \in DOMAIN d : d[i].significant}),
     reactions_with_genes |-> Cardinality({i \in DOMAIN d : d[i].n_genes > 0})]

\* a run that an exception ended shows no (complete) Summary Statistics
NoStatistics ==
    [total_pathways |-> -1, total_reactions |-> -1,
     significant_reactions |-> -1, reactions_with_genes |-> -1]

ShownStatistics(d, fd, err) ==
    IF err = NoError THEN SummaryMetrics(d, fd) ELSE NoStatistics

\* the run has reached line 203 / 442: the Pathway Summary exists
SummaryProduced ==
    error = NoError \/ error[2] > (IF IsTwoGroup THEN 203 ELSE 442)

\* the run has passed line 252 / 538: the reaction view exists
ViewProduced ==
    SummaryProduced /\ error[2] \notin {TwoGroupLines.sort, ThreeWayLines.sort}

\* the sidebar widgets below the search box were created in the last run
FiltersRendered == IsTwoGroup => "pathway_direction" \in columns

LoadIdle ==
    /\ files = <<>>
    /\ cache = <<>>
    /\ parsed = {}
    /\ reparsed = {}
    /\ loaded = <<>>
    /\ rendered = {}
    /\ crashed = "none"
    /\ clear_clicked = FALSE

Rerun(term, selected, sig, gonly, min, chk) ==
    /\ \E o \in Explorer(dataset_name, data, columns, term, selected, sig,
                         gonly, min, chk) :
          /\ filtered_data' = o.filtered_data
          /\ pathways' = o.pathways
          /\ selected_pathways' = o.selected_pathways
          /\ pathway_data' = o.pathway_data
          /\ error' = o.error
          /\ checked' = o.checked
          /\ markers' = CheckboxEmojis(dataset_name, o.pathways)
          /\ hints' = SearchSuggestions(dataset_name, term, o.pathways, o.error)
          /\ summary_statistics' = ShownStatistics(data, o.filtered_data, o.error)
    /\ search_term' = term
    /\ selected_direction' = selected
    /\ show_significant_only' = sig
    /\ show_with_genes_only' = gonly
    /\ min_effect_size' = min
    /\ UNCHANGED <<dataset_name, data, columns, load_vars>>

InitWith(ds, d, cols) ==
    /\ dataset_name = ds
    /\ data = d
    /\ columns = cols
    /\ search_term = <<>>
    /\ selected_direction = "All"
    /\ show_significant_only = FALSE
    /\ show_with_genes_only = FALSE
    /\ min_effect_size = 0
    /\ \E o \in Explorer(ds, d, cols, <<>>, "All", FALSE, FALSE, 0, {}) :
          /\ filtered_data = o.filtered_data
          /\ pathways = o.pathways
          /\ selected_pathways = o.selected_pathways
          /\ pathway_data = o.pathway_data
          /\ error = o.error
          /\ checked = o.checked
          /\ markers = CheckboxEmojis(ds, o.pathways)
          /\ hints = SearchSuggestions(ds, <<>>, o.pathways, o.error)
          /\ summary_statistics = ShownStatistics(d, o.filtered_data, o.error)
    /\ LoadIdle

Init == \E ds \in Datasets : \E d \in Tables(ds) : InitWith(ds, d, AllColumns)

SetSearch ==
    \E t \in SearchTerms \ {search_term} :
        Rerun(t, selected_direction, show_significant_only,
              show_with_genes_only, min_effect_size, checked)

SetDirection ==
    /\ FiltersRendered
    /\ \E v \in SelectOptions(dataset_name, data, columns) \ {selected_direction} :
          Rerun(search_term, v, show_significant_only,
                show_with_genes_only, min_effect_size, checked)

ToggleSignificant ==
    /\ FiltersRendered
    /\ Rerun(search_term, selected_direction, ~show_significant_only,
             show_with_genes_only, min_effect_size, checked)

ToggleGenes ==
    /\ FiltersRendered
    /\ Rerun(search_term, selected_direction, show_significant_only,
             ~show_with_genes_only, min_effect_size, checked)

SetMinEffect ==
    /\ FiltersRendered
    /\ \E m \in MinEffects \ {min_effect_size} :
          Rerun(search_term, selected_direction, show_significant_only,
                show_with_genes_only, m, checked)

\* the user ticks or unticks one of the checkboxes the last run drew
TogglePathway ==
    /\ SummaryProduced
    /\ \E i \in 1..Len(pathways) :
          LET p == pathways[i].pathway
          IN  Rerun(search_term, selected_direction, show_significant_only,
                    show_with_genes_only, min_effect_size,
                    IF p \in checked THEN checked \ {p} ELSE checked \cup {p})

Next ==
    \/ SetSearch
    \/ SetDirection
    \/ ToggleSignificant
    \/ ToggleGenes
    \/ SetMinEffect
    \/ TogglePathway

Spec == Init /\ [][Next]_vars

\* columns the explorers read that a results file may have been written
\* without (lines 127, 147, 175, 315, 363)
DroppableColumns ==
    {"genes", "pathway_direction", "n_genes", "ec_number",
     "developmental_trajectory"}

\* the explorers on a table that lacks one of these columns
InitSchema ==
    \E ds \in Datasets : \E d \in Tables(ds) : \E c \in DroppableColumns :
        InitWith(ds, d, AllColumns \ {c})

SpecSchema == InitSchema /\ [][Next]_vars

\* thymic_three_way_comprehensive_with_means.csv (line 89): every reaction
\* also has the mean activity of the three stages (lines 614-618) and
\* upstream's label of the stage with the largest mean
StageColumns == {"early_mean", "late_mean", "mature_mean", "highest_stage"}
StageNames == <<"Early_Selection", "Late_Selection", "Mature_CD8SP">>
StageMeans == {<<2, 1, 1>>, <<1, 2, 1>>, <<1, 1, 2>>, <<2, 2, 1>>}

\* the first stage, in the order Early, Late, Mature, with the largest mean
ArgMaxStage(means) ==
    StageNames[CHOOSE k \in 1..3 :
                  /\ \A j \in 1..3 : means[k] >= means[j]
                  /\ \A j \in 1..(k - 1) : means[j] < means[k]]

WithStageMeans(d, means) ==
    [i \in DOMAIN d |->
        d[i] @@ [early_mean |-> means[i][1], late_mean |-> means[i][2],
                 mature_mean |-> means[i][3],
                 highest_stage |-> ArgMaxStage(means[i])]]

\* the three-way explorer on the table of the file with stage means
InitStages ==
    \E d \in Tables("Three_Way_ANOVA") : \E means \in [DOMAIN d -> StageMeans] :
        InitWith("Three_Way_ANOVA", WithStageMeans(d, means),
                 AllColumns \cup StageColumns)

SpecStages == InitStages /\ [][Next]_vars

\* the three-way explorer on tables of up to MaxRows + 1 reactions with
\* gene symbols, with and without the developmental_trajectory column
\* (lines 363, 424, 429)
TrajectoryTables ==
    {MkTable("Three_Way_ANOVA", core) :
        core \in SeqsUpTo({r \in CoreRows : r.genes = Cs}, MaxRows + 1)}

InitTrajectory ==
    \E d \in TrajectoryTables :
        \E cols \in {AllColumns, AllColumns \ {"developmental_trajectory"}} :
            InitWith("Three_Way_ANOVA", d, cols)

SpecTrajectory == InitTrajectory /\ [][Next]_vars

(***************************************************************************)
(* The module-level script (lines 17-103 and 654-752): Clear Cache button, *)
(* cached loaders, tabs                                                    *)
(***************************************************************************)
CD4_PRIMARY == "all_pathways_comprehensive.csv"
CD4_FALLBACK == "top_pathways_comprehensive.csv"
CD8_PRIMARY == "cd8_pathways_comprehensive_RAW_PVALS.csv"
CD8_FALLBACK == "cd8_pathways_comprehensive_ttest.csv"
EARLY_LATE == "thymic_development_Early_vs_Late_Selection_comprehensive.csv"
LATE_MATURE == "thymic_development_Late_vs_Mature_CD8SP_comprehensive.csv"
EARLY_MATURE == "thymic_development_Early_vs_Mature_CD8SP_comprehensive.csv"
THREE_WAY_PRIMARY == "thymic_three_way_comprehensive_with_means.csv"
THREE_WAY_FALLBACK == "thymic_three_way_anova_comprehensive.csv"

FileNames == {CD4_PRIMARY, CD4_FALLBACK, CD8_PRIMARY, CD8_FALLBACK, EARLY_LATE,
              LATE_MATURE, EARLY_MATURE, THREE_WAY_PRIMARY, THREE_WAY_FALLBACK}

\* a file is absent, present but not parseable as CSV, a CSV without the
\* 'significant' column, or a complete CSV
FileStates == {"missing", "unreadable", "no_significant", "ok"}

\* the files on disk, with at most MaxFaults of them not in order
WithinFaults(fs) == Cardinality({f \in FileNames : fs[f] # "ok"}) <= MaxFaults
FileConfigs == {fs \in [FileNames -> FileStates] : WithinFaults(fs)}

\* the loaders in the order of the calls of lines 655-660; loader i feeds tab i
Loaders == <<"load_cd4_data", "load_cd8_data", "load_thymic_early_late",
             "load_thymic_late_mature", "load_thymic_early_mature",
             "load_thymic_three_way">>
Tabs == 1..Len(Loaders)

\* values a loader call yields: a DataFrame (named by its file), None, and
\* two markers for "no value"
DataFrame(f, has_significant) == [file |-> f, significant |-> has_significant]
None == [file |-> "None", significant |-> FALSE]
Absent == [file |-> "absent", significant |-> FALSE]
IsDataFrame(v) == v.file \in FileNames

\* pd.read_csv(f)
read_csv(fs, f) ==
    IF fs[f] = "missing" THEN [exc |-> "FileNotFoundError", df |-> Absent]
    ELSE IF fs[f] = "unreadable" THEN [exc |-> "ParserError", df |-> Absent]
    ELSE [exc |-> "none", df |-> DataFrame(f, fs[f] = "ok")]

\* how the body of a loader ends: it returns a value or lets an exception
\* out; parsed tells whether a read_csv call of the body gave a DataFrame
Returns(v, p) == [value |-> v, raised |-> "none", parsed |-> p]
Raises(exc, p) == [value |-> Absent, raised |-> exc, parsed |-> p]

\* lines 24-37
load_cd4_data(fs) ==
    LET r == read_csv(fs, CD4_PRIMARY)
    IN  IF r.exc = "none"
        THEN IF r.df.significant THEN Returns(r.df, TRUE)
             ELSE Raises("KeyError", TRUE)
        ELSE IF r.exc = "FileNotFoundError"
        THEN LET r2 == read_csv(fs, CD4_FALLBACK)
             IN  IF r2.exc = "none" THEN Returns(r2.df, TRUE)
                 ELSE IF r2.exc = "FileNotFoundError" THEN Returns(None, FALSE)
                 ELSE Raises(r2.exc, FALSE)
        ELSE Raises(r.exc, FALSE)

\* lines 40-53
load_cd8_data(fs) ==
    LET r == read_csv(fs, CD8_PRIMARY)
    IN  IF r.exc = "none" /\ r.df.significant THEN Returns(r.df, TRUE)
        ELSE LET r2 == read_csv(fs, CD8_FALLBACK)
             IN  IF r2.exc = "none" THEN Returns(r2.df, TRUE)
                 ELSE Returns(None, r.exc = "none")

\* lines 56-63, 66-73, 76-83
load_thymic_pairwise(fs, f) ==
    LET r == read_csv(fs, f)
    IN  IF r.exc = "none"
        THEN IF r.df.significant THEN Returns(r.df, TRUE)
             ELSE Raises("KeyError", TRUE)
        ELSE IF r.exc = "FileNotFoundError" THEN Returns(None, FALSE)
        ELSE Raises(r.exc, FALSE)

load_thymic_early_late(fs) == load_thymic_pairwise(fs, EARLY_LATE)
load_thymic_late_mature(fs) == load_thymic_pairwise(fs, LATE_MATURE)
load_thymic_early_mature(fs) == load_thymic_pairwise(fs, EARLY_MATURE)

\* lines 86-103: the handler of line 101 takes what the try body raises,
\* not what the handler of line 92 raises
load_thymic_three_way(fs) ==
    LET r == read_csv(fs, THREE_WAY_PRIMARY)
    IN  IF r.exc = "none"
        THEN IF r.df.significant THEN Returns(r.df, TRUE)
             ELSE Returns(None, TRUE)
        ELSE IF r.exc = "FileNotFoundError"
        THEN LET r2 == read_csv(fs, THREE_WAY_FALLBACK)
             IN  IF r2.exc = "none" THEN Returns(r2.df, TRUE)
                 ELSE IF r2.exc = "FileNotFoundError" THEN Returns(None, FALSE)
                 ELSE Raises(r2.exc, FALSE)
        ELSE Returns(None, FALSE)

\* the body of loader i
LoaderBody(i, fs) ==
    CASE i = 1 -> load_cd4_data(fs)
      [] i = 2 -> load_cd8_data(fs)
      [] i = 3 -> load_thymic_early_late(fs)
      [] i = 4 -> load_thymic_late_mature(fs)
      [] i = 5 -> load_thymic_early_mature(fs)
      [] i = 6 -> load_thymic_three_way(fs)

EmptyCache == [i \in Tabs |-> Absent]

\* lines 655-660 under @st.cache_data, from loader i on: a stored entry is
\* returned without running the body; a body that returns has its value
\* stored; an exception out of a body stores nothing and ends the script
\* p is the set of loaders whose body has parsed a file since the cache was
\* last cleared, rp the set of those whose body did so again in this run
RECURSIVE CallLoaders(_, _, _, _, _, _)
CallLoaders(i, fs, c, p, rp, ld) ==
    IF i > Len(Loaders)
    THEN [cache |-> c, parsed |-> p, reparsed |-> rp, loaded |-> ld,
          crashed |-> "none"]
    ELSE IF c[i] # Absent
    THEN CallLoaders(i + 1, fs, c, p, rp, [ld EXCEPT ![i] = c[i]])
    ELSE LET out == LoaderBody(i, fs)
             p2 == IF out.parsed THEN p \cup {i} ELSE p
             rp2 == IF out.parsed /\ i \in p THEN rp \cup {i} ELSE rp
         IN  IF out.raised # "none"
             THEN [cache |-> c, parsed |-> p2, reparsed |-> rp2, loaded |-> ld,
                   crashed |-> Loaders[i]]
             ELSE CallLoaders(i + 1, fs, [c EXCEPT ![i] = out.value], p2, rp2,
                              [ld EXCEPT ![i] = out.value])

\* the explorer the body of tab i calls, and the columns of its table
TabDataset(i) ==
    IF i = 6 THEN "Three_Way_ANOVA" ELSE IF i = 1 THEN "CD4" ELSE "Early_vs_Late"

ColumnsOf(df) ==
    IF df.significant THEN AllColumns ELSE AllColumns \ {"significant"}

\* lines 672-752, the body of tab i with a DataFrame: it runs the explorer at
\* the widgets' default values.  TRUE when an exception ends it.
ExplorerRaises ==
    [i \in Tabs, has_significant \in BOOLEAN |->
        \A o \in Explorer(TabDataset(i), <<>>,
                          ColumnsOf(DataFrame(Loaders[i], has_significant)),
                          <<>>, "All", FALSE, FALSE, 0, {}) : o.error # NoError]

\* without data the tab shows the not-found message (lines 108-110, 341-343,
\* 750-752) and ends normally
TabRaises(i, v) == IsDataFrame(v) /\ ExplorerRaises[i, v.significant]

\* the tabs from i on: the set of tabs that ran to their end and the tab
\* whose exception ended the script
RECURSIVE RenderTabs(_, _, _)
RenderTabs(i, ld, done) ==
    IF i > Len(Loaders) THEN [rendered |-> done, crashed |-> "none"]
    ELSE IF TabRaises(i, ld[i]) THEN [rendered |-> done, crashed |-> "tab"]
    ELSE RenderTabs(i + 1, ld, done \cup {i})

Script_uncached(fs, c, p, clicked) ==
    LET l == CallLoaders(1, fs, EmptyCache, IF clicked THEN {} ELSE p, {},
                         [i \in Tabs |-> Absent])
        t == IF l.crashed = "none" THEN RenderTabs(1, l.loaded, {})
             ELSE [rendered |-> {}, crashed |-> l.crashed]
    IN  [cache |-> l.cache, parsed |-> l.parsed, reparsed |-> l.reparsed,
         loaded |-> l.loaded,
         rendered |-> t.rendered, crashed |-> t.crashed]

\* one run of the script (lines 18-20, 655-660, 672-752)
Script(fs, c, p, clicked) ==
    LET c0 == IF clicked THEN EmptyCache ELSE c
        p0 == IF clicked THEN {} ELSE p
        l == CallLoaders(1, fs, c0, p0, {}, [i \in Tabs |-> Absent])
        t == IF l.crashed = "none" THEN RenderTabs(1, l.loaded, {})
             ELSE [rendered |-> {}, crashed |-> l.crashed]
    IN  [cache |-> l.cache, parsed |-> l.parsed, reparsed |-> l.reparsed,
         loaded |-> l.loaded,
         rendered |-> t.rendered, crashed |-> t.crashed]

ExplorerIdle ==
    /\ dataset_name = "CD4"
    /\ data = <<>>
    /\ columns = AllColumns
    /\ search_term = <<>>
    /\ selected_direction = "All"
    /\ show_significant_only = FALSE
    /\ show_with_genes_only = FALSE
    /\ min_effect_size = 0
    /\ checked = {}
    /\ filtered_data = <<>>
    /\ pathways = <<>>
    /\ selected_pathways = <<>>
    /\ pathway_data = <<>>
    /\ error = NoError
    /\ markers = <<>>
    /\ hints = FALSE
    /\ summary_statistics = NoStatistics

\* the server has started and the first session has run the script
InitLoad ==
    /\ ExplorerIdle
    /\ files \in FileConfigs
    /\ clear_clicked = FALSE
    /\ \E r \in {Script(files, EmptyCache, {}, FALSE)} :
           /\ cache = r.cache
           /\ parsed = r.parsed
           /\ reparsed = r.reparsed
           /\ loaded = r.loaded
           /\ rendered = r.rendered
           /\ crashed = r.crashed

\* one rerun: fs is the state in which the run finds the files, which differs
\* from what the run before found in at most one file
RunScript(fs, clicked) ==
    /\ WithinFaults(fs)
    /\ files' = fs
    /\ \E r \in {Script(fs, cache, parsed, clicked)} :
           /\ cache' = r.cache
           /\ parsed' = r.parsed
           /\ reparsed' = r.reparsed
           /\ loaded' = r.loaded
           /\ rendered' = r.rendered
           /\ crashed' = r.crashed
    /\ clear_clicked' = clicked
    /\ UNCHANGED explorer_vars

\* any interaction reruns the script with the button not pressed
ScriptRerun ==
    \E f \in FileNames : \E st \in FileStates :
        RunScript([files EXCEPT ![f] = st], FALSE)

\* line 18: the user presses Clear Cache
ClearCache ==
    \E f \in FileNames : \E st \in FileStates :
        RunScript([files EXCEPT ![f] = st], TRUE)

NextLoad ==
    \/ ScriptRerun
    \/ ClearCache

SpecLoad == InitLoad /\ [][NextLoad]_vars

(***************************************************************************)
(* Properties of the explorers (checked under Spec)                        *)
(***************************************************************************)
\* the table left by the search, direction/trajectory, significance and
\* gene filters, before any effect-size threshold
BeforeThreshold ==
    IF IsTwoGroup
    THEN FilterTwoGroup(data, hi_label(dataset_name), lo_label(dataset_name),
                        search_term, selected_direction,
                        show_significant_only, show_with_genes_only)
    ELSE FilterThreeWay(data, columns, search_term, selected_direction,
                        show_significant_only, show_with_genes_only, 0)

\* C1 as stated: for every non-empty table and every filter setting, the
\* n_significant of the Pathway Summary rows add up to the number of
\* significant rows of the filtered table.
C1_SumIsSignificantOfFiltered ==
    (SummaryProduced /\ data # <<>>) =>
        SumSeq([i \in 1..Len(pathways) |-> pathways[i].n_significant])
          = Cardinality({i \in 1..Len(filtered_data) : filtered_data[i].significant})

\* C1 amended: the n_significant of the Pathway Summary rows add up to the
\* number of significant rows of the filtered table whose pathway is listed
\* in the summary; in the three-way explorer, and in the two-group explorer
\* with min_abs_effect = 0, that is every significant row of the filtered
\* table.
C1_SumIsSignificantOfListed ==
    (SummaryProduced /\ data # <<>>) =>
        LET listed == {pathways[i].pathway : i \in 1..Len(pathways)}
            total == SumSeq([i \in 1..Len(pathways) |-> pathways[i].n_significant])
        IN  /\ total = Cardinality({i \in 1..Len(filtered_data) :
                                      /\ filtered_data[i].significant
                                      /\ filtered_data[i].pathway \in listed})
            /\ (~IsTwoGroup \/ min_effect_size = 0) =>
                  total = Cardinality({i \in 1..Len(filtered_data) :
                                         filtered_data[i].significant})

\* a two-group run whose threshold drops a pathway that has a significant
\* row, while another pathway with a significant row stays listed
C1_Witness ==
    /\ SummaryProduced
    /\ IsTwoGroup
    /\ min_effect_size > 0
    /\ \E i \in 1..Len(pathways) : pathways[i].n_significant > 0
    /\ \E i \in 1..Len(filtered_data) :
          /\ filtered_data[i].significant
          /\ \A k \in 1..Len(pathways) : pathways[k].pathway # filtered_data[i].pathway

\* C2 as stated: with the direction filter at V # "All", the rows kept are
\* exactly the rows whose pathway_direction equals V.
C2_KeepsRowsByPathwayDirection ==
    (SummaryProduced /\ IsTwoGroup /\ selected_direction # "All") =>
        filtered_data =
            SelectSeq(ApplyGenes(ApplySignificant(ApplySearch(data, search_term),
                                                  show_significant_only),
                                 show_with_genes_only),
                      LAMBDA r : r.pathway_direction = selected_direction)

\* C2 amended: with the direction filter at V # "All", the rows kept are
\* exactly the rows whose label derived from the sign of pathway_median_d
\* (hi_label when pathway_median_d > 0, lo_label otherwise) equals V.
C2_KeepsRowsBySignOfMedian ==
    (SummaryProduced /\ IsTwoGroup /\ selected_direction # "All") =>
        filtered_data =
            SelectSeq(ApplyGenes(ApplySignificant(ApplySearch(data, search_term),
                                                  show_significant_only),
                                 show_with_genes_only),
                      LAMBDA r : selected_direction =
                                    (IF r.pathway_median_d > 0
                                     THEN hi_label(dataset_name)
                                     ELSE lo_label(dataset_name)))

\* a direction filter that keeps a row and drops another, where the kept
\* row carries the other pathway_direction label
C2_Witness ==
    /\ SummaryProduced
    /\ IsTwoGroup
    /\ selected_direction # "All"
    /\ filtered_data # <<>>
    /\ Len(filtered_data) < Len(ApplySearch(data, search_term))
    /\ filtered_data[1].pathway_direction # selected_direction

\* C3 as stated: the summary is ordered by |median_d| descending, then
\* pct_significant descending, and pathways that tie on both appear in the
\* order of their first rows in the input table.
C3_TiesInInputOrder ==
    SummaryProduced =>
        \A i \in 1..Len(pathways) : \A j \in 1..Len(pathways) :
            i < j =>
                /\ ~SortsBefore(pathways[j], pathways[i])
                /\ ~SortsBefore(pathways[i], pathways[j]) =>
                      \E a \in 1..Len(data) :
                          /\ data[a].pathway = pathways[i].pathway
                          /\ \A b \in 1..a : data[b].pathway # pathways[j].pathway

\* C3 amended: the summary is ordered by |median_d| descending, then
\* pct_significant descending, and pathways that tie on both appear in
\* ascending order of the pathway name; a rerun with the same table and
\* filters lists the pathways in the same order.
C3_TiesInNameOrder ==
    /\ [](SummaryProduced =>
            \A i \in 1..Len(pathways) : \A j \in 1..Len(pathways) :
                i < j =>
                    /\ Abs(pathways[i].median_d) >= Abs(pathways[j].median_d)
                    /\ Abs(pathways[i].median_d) = Abs(pathways[j].median_d) =>
                          pathways[i].pct_significant >= pathways[j].pct_significant
                    /\ (/\ Abs(pathways[i].median_d) = Abs(pathways[j].median_d)
                        /\ pathways[i].pct_significant = pathways[j].pct_significant)
                          => StrLess(pathways[i].pathway, pathways[j].pathway))
    /\ [][(/\ search_term' = search_term
           /\ selected_direction' = selected_direction
           /\ show_significant_only' = show_significant_only
           /\ show_with_genes_only' = show_with_genes_only
           /\ min_effect_size' = min_effect_size)
          => [i \in 1..Len(pathways') |-> pathways'[i].pathway]
               = [i \in 1..Len(pathways) |-> pathways[i].pathway]]_vars

\* two listed pathways tie on both keys and the one listed first comes
\* later in the input table
C3_Witness ==
    /\ SummaryProduced
    /\ Len(pathways) = 2
    /\ Abs(pathways[1].median_d) = Abs(pathways[2].median_d)
    /\ pathways[1].pct_significant = pathways[2].pct_significant
    /\ data[1].pathway = pathways[2].pathway

\* C4 as stated: in both explorers the summary lists exactly the pathways
\* with a row left by the other filters and |median_d| >= min_abs_effect,
\* with n_total, n_significant and median_d taken over all those rows.
C4_ThresholdOnPathways ==
    SummaryProduced =>
        LET F == BeforeThreshold
            rowsOf(p) == {i \in 1..Len(F) : F[i].pathway = p}
            medianOf(p) ==
                IF IsTwoGroup
                THEN F[CHOOSE i \in rowsOf(p) : \A j \in rowsOf(p) : i <= j].pathway_median_d
                ELSE Median([i \in 1..Cardinality(rowsOf(p)) |->
                               Group(F, p)[i].cohens_d])
        IN  /\ {pathways[i].pathway : i \in 1..Len(pathways)}
                 = {p \in PathwayNames :
                      rowsOf(p) # {} /\ Abs(medianOf(p)) >= min_effect_size}
            /\ \A i \in 1..Len(pathways) :
                  /\ pathways[i].n_total = Cardinality(rowsOf(pathways[i].pathway))
                  /\ pathways[i].n_significant =
                        Cardinality({k \in rowsOf(pathways[i].pathway) : F[k].significant})
                  /\ pathways[i].median_d = medianOf(pathways[i].pathway)

\* C4 amended: create_pathway_explorer applies the threshold to pathways
\* after aggregation, as stated.  create_three_way_pathway_explorer applies
\* it to reactions before aggregation: its summary lists exactly the
\* pathways with a row left by the other filters that has
\* |cohens_d| >= min_abs_effect, and n_total, n_significant and median_d
\* are taken over those rows only.
C4_ThresholdPerExplorer ==
    SummaryProduced =>
        LET F == BeforeThreshold
            rowsOf(p) ==
                {i \in 1..Len(F) :
                    /\ F[i].pathway = p
                    /\ IsTwoGroup \/ Abs(F[i].cohens_d) >= min_effect_size}
            medianOf(p) ==
                IF IsTwoGroup
                THEN F[CHOOSE i \in rowsOf(p) : \A j \in rowsOf(p) : i <= j].pathway_median_d
                ELSE LET g == SelectSeq(F, LAMBDA r :
                                   r.pathway = p /\ Abs(r.cohens_d) >= min_effect_size)
                     IN  Median([i \in 1..Len(g) |-> g[i].cohens_d])
        IN  /\ {pathways[i].pathway : i \in 1..Len(pathways)}
                 = {p \in PathwayNames :
                      /\ rowsOf(p) # {}
                      /\ IsTwoGroup => Abs(medianOf(p)) >= min_effect_size}
            /\ \A i \in 1..Len(pathways) :
                  /\ pathways[i].n_total = Cardinality(rowsOf(pathways[i].pathway))
                  /\ pathways[i].n_significant =
                        Cardinality({k \in rowsOf(pathways[i].pathway) : F[k].significant})
                  /\ pathways[i].median_d = medianOf(pathways[i].pathway)

\* a three-way run whose threshold removes one reaction of a listed pathway
C4_Witness ==
    /\ SummaryProduced
    /\ ~IsTwoGroup
    /\ min_effect_size > 0
    /\ \E i \in 1..Len(pathways) :
          pathways[i].n_total <
              Cardinality({k \in 1..Len(BeforeThreshold) :
                             BeforeThreshold[k].pathway = pathways[i].pathway})

\* C5: every row of the Pathway Summary has n_total >= 1,
\* 0 <= n_significant <= n_total and 0 <= pct_significant <= 100.
C5_CountsInRange ==
    SummaryProduced =>
        \A i \in 1..Len(pathways) :
            /\ pathways[i].n_total >= 1
            /\ 0 <= pathways[i].n_significant
            /\ pathways[i].n_significant <= pathways[i].n_total
            /\ 0 <= pathways[i].pct_significant
            /\ pathways[i].pct_significant <= 1000

\* a summary row with some but not all reactions significant, under active
\* filters
C5_Witness ==
    /\ SummaryProduced
    /\ search_term # <<>>
    /\ \E i \in 1..Len(pathways) :
          /\ 0 < pathways[i].n_significant
          /\ pathways[i].n_significant < pathways[i].n_total

\* C6 as stated: the reaction view holds exactly the filtered rows of the
\* selected pathways, by |cohens_d| descending, rows with equal |cohens_d|
\* in their input order.
C6_ViewTiesInInputOrder ==
    ViewProduced =>
        /\ {pathway_data[i].reaction_id : i \in 1..Len(pathway_data)}
             = {filtered_data[i].reaction_id : i \in
                  {k \in 1..Len(filtered_data) :
                     \E s \in 1..Len(selected_pathways) :
                        selected_pathways[s] = filtered_data[k].pathway}}
        /\ \A i \in 1..Len(pathway_data) : \A j \in 1..Len(pathway_data) :
              i < j =>
                 \/ Abs(pathway_data[i].cohens_d) > Abs(pathway_data[j].cohens_d)
                 \/ /\ Abs(pathway_data[i].cohens_d) = Abs(pathway_data[j].cohens_d)
                    /\ pathway_data[i].reaction_id < pathway_data[j].reaction_id

\* C6 amended: the reaction view holds exactly the filtered rows of the
\* selected pathways, each once, by |cohens_d| descending; the order of
\* rows with equal |cohens_d| is not fixed.
C6_ViewByAbsEffect ==
    ViewProduced =>
        /\ {pathway_data[i].reaction_id : i \in 1..Len(pathway_data)}
             = {filtered_data[i].reaction_id : i \in
                  {k \in 1..Len(filtered_data) :
                     \E s \in 1..Len(selected_pathways) :
                        selected_pathways[s] = filtered_data[k].pathway}}
        /\ \A i \in 1..Len(pathway_data) :
              /\ \E k \in 1..Len(filtered_data) : filtered_data[k] = pathway_data[i]
              /\ \A j \in 1..Len(pathway_data) :
                    i < j =>
                       /\ pathway_data[i].reaction_id # pathway_data[j].reaction_id
                       /\ Abs(pathway_data[i].cohens_d) >= Abs(pathway_data[j].cohens_d)

\* a view of two reactions with equal |cohens_d| in which the later input
\* row comes first
C6_Witness ==
    /\ Len(pathway_data) = 2
    /\ Abs(pathway_data[1].cohens_d) = Abs(pathway_data[2].cohens_d)
    /\ pathway_data[1].reaction_id > pathway_data[2].reaction_id

(***************************************************************************)
(* Properties of the loaders, the cache and the script (checked under      *)
(* SpecLoad) and of the explorers on incomplete tables (under SpecSchema)  *)
(***************************************************************************)
\* the files loader i tries, in its priority order
FilesOf(i) ==
    CASE i = 1 -> <<CD4_PRIMARY, CD4_FALLBACK>>
      [] i = 2 -> <<CD8_PRIMARY, CD8_FALLBACK>>
      [] i = 3 -> <<EARLY_LATE>>
      [] i = 4 -> <<LATE_MATURE>>
      [] i = 5 -> <<EARLY_MATURE>>
      [] i = 6 -> <<THREE_WAY_PRIMARY, THREE_WAY_FALLBACK>>

\* the first complete file of loader i, if there is one
CompleteFiles(i) == {k \in DOMAIN FilesOf(i) : files[FilesOf(i)[k]] = "ok"}
FirstComplete(i) ==
    FilesOf(i)[CHOOSE k \in CompleteFiles(i) : \A j \in CompleteFiles(i) : k <= j]

\* C7: no exception escapes a loader to the top level of the script, and a
\* loader whose body ran in a Clear Cache run returned the table of the first
\* of its files that can be loaded, or None when all its files are missing
C7_LoadersNeverRaise ==
    /\ \A i \in Tabs : crashed # Loaders[i]
    /\ \A i \in Tabs :
          (clear_clicked /\ loaded[i] # Absent) =>
              /\ CompleteFiles(i) # {} => loaded[i] = DataFrame(FirstComplete(i), TRUE)
              /\ (\A k \in DOMAIN FilesOf(i) : files[FilesOf(i)[k]] = "missing")
                    => loaded[i] = None

\* C8: between two Clear Cache actions no loader parses a file a second time,
\* and a run hands each tab the table the cache holds for its loader
C8_ParsedOncePerClear ==
    /\ reparsed = {}
    /\ \A i \in Tabs : loaded[i] # Absent => loaded[i] = cache[i]

\* C9: on a table that lacks one of the expected columns no run of an explorer
\* ends in a KeyError, and with a search term and no genes column the run
\* still produces the Pathway Summary
C9_MissingColumnIsNoOp ==
    columns # AllColumns =>
        /\ error[1] # "KeyError"
        /\ ("genes" \notin columns /\ search_term # <<>>) => SummaryProduced

\* the datasets one of whose files is not in order
FailingDatasets ==
    {i \in Tabs : \E k \in DOMAIN FilesOf(i) : files[FilesOf(i)[k]] # "ok"}

\* C10: when the files of at most one dataset are not in order, a Clear Cache
\* run ends without an exception and has rendered all six tabs
C10_OtherTabsRendered ==
    (clear_clicked /\ Cardinality(FailingDatasets) <= 1) =>
        /\ crashed = "none"
        /\ rendered = Tabs

(***************************************************************************)
(* Further properties of the explorers                                     *)
(***************************************************************************)
\* C11: no run changes the table the explorer was called with, and whenever
\* a run shows the Summary Statistics they are the four counts of that whole
\* table, whatever the filters are
C11_SourceTableUntouched ==
    /\ [](summary_statistics # NoStatistics =>
            /\ summary_statistics.total_pathways =
                   Cardinality({data[i].pathway : i \in DOMAIN data})
            /\ summary_statistics.total_reactions = Len(data)
            /\ summary_statistics.significant_reactions =
                   Cardinality({i \in DOMAIN data : data[i].significant})
            /\ summary_statistics.reactions_with_genes =
                   Cardinality({i \in DOMAIN data : data[i].n_genes > 0}))
    /\ [][/\ data' = data
          /\ columns' = columns
          /\ (summary_statistics # NoStatistics /\ summary_statistics' # NoStatistics)
                => summary_statistics' = summary_statistics]_vars

C11_Witness ==
    /\ summary_statistics # NoStatistics
    /\ Len(filtered_data) < Len(data)
    /\ search_term # <<>>
    /\ selected_pathways # <<>>

\* the colour the three-way explorer gives to a stage (lines 459-464)
StageColour(stage) ==
    CASE stage = "Mature_CD8SP" -> "red"
      [] stage = "Late_Selection" -> "yellow"
      [] stage = "Early_Selection" -> "blue"

\* C12: in the three-way explorer on a table with stage means, a pathway all
\* of whose filtered reactions have their largest mean in the same stage
\* (equal means resolved in the order Early, Late, Mature) carries the
\* marker of that stage
C12_MarkerByHighestStage ==
    (dataset_name = "Three_Way_ANOVA" /\ StageColumns \subseteq columns) =>
        \A k \in DOMAIN markers :
            LET rows == {i \in DOMAIN filtered_data :
                            filtered_data[i].pathway = pathways[k].pathway}
                stages == {ArgMaxStage(<<filtered_data[i].early_mean,
                                         filtered_data[i].late_mean,
                                         filtered_data[i].mature_mean>>) : i \in rows}
            IN  \A st \in stages : stages = {st} => markers[k] = StageColour(st)

\* the pathways of the source table none of whose reactions is significant
NonSignificantPathways ==
    {data[i].pathway : i \in DOMAIN data} \
        {data[i].pathway : i \in {j \in DOMAIN data : data[j].significant}}

\* C13: with "significant only" off, a pathway without any significant
\* reaction is listed exactly when it passes the other filters, and then with
\* n_significant = 0 and pct_significant = 0.0; with "significant only" on it
\* is not listed
C13_NonSignificantPathwayListed ==
    SummaryProduced =>
        \A p \in NonSignificantPathways :
            LET listed == {k \in DOMAIN pathways : pathways[k].pathway = p}
                passing == {i \in DOMAIN filtered_data :
                               /\ filtered_data[i].pathway = p
                               /\ IsTwoGroup =>
                                     Abs(filtered_data[i].pathway_median_d)
                                         >= min_effect_size}
            IN  IF show_significant_only THEN listed = {}
                ELSE /\ listed # {} <=> passing # {}
                     /\ \A k \in listed : /\ pathways[k].n_significant = 0
                                           /\ pathways[k].pct_significant = 0

\* such a pathway is listed next to one with significant reactions, under an
\* active search
C13_Witness ==
    /\ SummaryProduced
    /\ ~show_significant_only
    /\ search_term # <<>>
    /\ \E k \in DOMAIN pathways : pathways[k].pathway \in NonSignificantPathways
    /\ \E k \in DOMAIN pathways : pathways[k].n_significant > 0

\* C14: with only the search box set, a run that gets to the Pathway Summary
\* has kept exactly the rows in which
\* the lower-cased term occurs as a literal substring of the lower-cased
\* pathway or genes text, and searching the result again changes nothing
C14_SearchIsLiteralSubstring ==
    LET t == StrLower(search_term)
        occurs(text) ==
            \E i \in 0..(Len(text) - Len(t)) : SubSeq(text, i + 1, i + Len(t)) = t
        hit(r) == \/ occurs(StrLower(r.pathway))
                  \/ r.genes # NaN /\ occurs(StrLower(r.genes))
    IN  (/\ SummaryProduced
         /\ selected_direction = "All"
         /\ ~show_significant_only
         /\ ~show_with_genes_only
         /\ min_effect_size = 0) =>
            /\ filtered_data = SelectSeq(data, hit)
            /\ SelectSeq(filtered_data, hit) = filtered_data

\* C15 as stated: common_trajectory is the most frequent label of the
\* pathway's filtered reactions, of several equally frequent ones the label
\* of the earliest reaction, and "Unknown" without the label column
C15_TiesFirstMet ==
    SummaryProduced =>
        \A k \in DOMAIN pathways :
            LET rows == {i \in DOMAIN filtered_data :
                            filtered_data[i].pathway = pathways[k].pathway}
                n(l) == Cardinality({i \in rows :
                            filtered_data[i].developmental_trajectory = l})
                modes == {i \in rows :
                             \A j \in rows :
                                 n(filtered_data[i].developmental_trajectory) >=
                                 n(filtered_data[j].developmental_trajectory)}
            IN  IF "developmental_trajectory" \notin columns
                THEN pathways[k].common_trajectory = "Unknown"
                ELSE \E i \in modes :
                        /\ \A j \in modes : i <= j
                        /\ pathways[k].common_trajectory =
                               filtered_data[i].developmental_trajectory

\* C15 as the code has it: common_trajectory is a label of the pathway's
\* filtered reactions that no other label is more frequent than, and
\* "Unknown" without the label column
C15_CommonIsMostFrequent ==
    SummaryProduced =>
        \A k \in DOMAIN pathways :
            LET rows == {i \in DOMAIN filtered_data :
                            filtered_data[i].pathway = pathways[k].pathway}
                n(l) == Cardinality({i \in rows :
                            filtered_data[i].developmental_trajectory = l})
            IN  IF "developmental_trajectory" \notin columns
                THEN pathways[k].common_trajectory = "Unknown"
                ELSE \E i \in rows :
                        /\ pathways[k].common_trajectory =
                               filtered_data[i].developmental_trajectory
                        /\ \A j \in rows :
                               n(filtered_data[i].developmental_trajectory) >=
                               n(filtered_data[j].developmental_trajectory)

\* a pathway with two reactions of one label and one of the other
C15_Witness ==
    /\ SummaryProduced
    /\ "developmental_trajectory" \in columns
    /\ \E k \in DOMAIN pathways :
          /\ pathways[k].n_total = 3
          /\ \E i, j \in DOMAIN filtered_data :
                /\ filtered_data[i].pathway = pathways[k].pathway
                /\ filtered_data[j].pathway = pathways[k].pathway
                /\ filtered_data[i].developmental_trajectory = pathways[k].common_trajectory
                /\ filtered_data[j].developmental_trajectory # pathways[k].common_trajectory

\* C16: when the table is empty or no row of it passes the filters, the run
\* ends without an exception, with an empty Pathway Summary, nothing selected
\* and an empty reaction view, and with the search suggestions if a term is set
C16_EmptyResultIsNoError ==
    LET survivors ==
            IF IsTwoGroup
            THEN FilterTwoGroup(data, hi_label(dataset_name),
                                lo_label(dataset_name), search_term,
                                selected_direction, show_significant_only,
                                show_with_genes_only)
            ELSE FilterThreeWay(data, columns, search_term, selected_direction,
                                show_significant_only, show_with_genes_only,
                                min_effect_size)
    IN  survivors = <<>> =>
            /\ error = NoError
            /\ pathways = <<>>
            /\ selected_pathways = <<>>
            /\ pathway_data = <<>>
            /\ search_term # <<>> => hints

\* C17: while Clear Cache is not pressed, a loader whose stored result is
\* None keeps that entry and hands None to every run without parsing a file,
\* whatever has become of its files; only a Clear Cache run turns a stored
\* None into a table
C17_NotFoundIsCached ==
    [][\A i \in Tabs :
          cache[i] = None =>
              /\ ~clear_clicked' =>
                    /\ cache'[i] = None
                    /\ loaded'[i] = None
                    /\ i \in parsed' <=> i \in parsed
                    /\ i \notin reparsed'
              /\ IsDataFrame(cache'[i]) => clear_clicked']_vars

\* a rerun has handed None to the Early-vs-Late tab although its file is
\* there by now
C17_Witness ==
    /\ ~clear_clicked
    /\ files[EARLY_LATE] = "ok"
    /\ cache[3] = None
    /\ loaded[3] = None
    /\ 3 \in rendered

\* C18: the pathways selected in a run are rows of that run's Pathway
\* Summary, each found by the lookup of the 'Selected Pathways' panel, and
\* every reaction of the reaction view belongs to a selected, listed pathway
C18_SelectionWithinSummary ==
    LET listed == {pathways[k].pathway : k \in DOMAIN pathways}
        selected == {selected_pathways[k] : k \in DOMAIN selected_pathways}
    IN  /\ selected \subseteq listed
        /\ \A p \in selected :
              Cardinality({k \in DOMAIN pathways : pathways[k].pathway = p}) = 1
        /\ \A i \in DOMAIN pathway_data :
              /\ pathway_data[i].pathway \in selected
              /\ pathway_data[i].pathway \in listed
        /\ error[1] # "IndexError"

\* a selection is shown while the filters keep a pathway of the table out of
\* the Pathway Summary
C18_Witness ==
    /\ selected_pathways # <<>>
    /\ pathway_data # <<>>
    /\ \E i \in DOMAIN data :
          \A k \in DOMAIN pathways : pathways[k].pathway # data[i].pathway
    /\ (search_term # <<>> \/ min_effect_size > 0)

====
